---- MODULE Spec2Model ----
(***************************************************************************)
(* Model of agente.py: one run of main() over the table vendas.            *)
(*                                                                         *)
(* Domain of the model: amounts are whole currency units (so every float   *)
(* comparison of the code is decided exactly by integer arithmetic), id    *)
(* and cliente are never NULL, and amounts are non-negative.               *)
(***************************************************************************)
EXTENDS Integers, Sequences, FiniteSets

VARIABLES
    vendas,       \* the rows of table vendas, as read_sql returns them
    hoje,         \* the clock: what date.today() returns now
    pc,           \* position of main()
    df,           \* main's df: <<>> before the read, raw rows, then normalized
    i,            \* index of the next detector of the list at lines 276-281
    resultados,   \* what each detector of the list returned (Pendente before)
    hojeLido,     \* the value of date.today() each detector read (0: none)
    alertas,      \* main's list alertas
    w,            \* index in alertas of the next incident to register
    tentativas,   \* the INSERTs issued on table incidentes, in order
    incidentes,   \* the rows committed to table incidentes, in order
    leituras,     \* number of SELECTs issued on table vendas
    saida,        \* the summary line main printed last ("" before)
    total_geral,  \* the total printed by the OK summary (-1: not printed)
    erro          \* the exception that ended the run ("" if none)

vars == <<vendas, hoje, pc, df, i, resultados, hojeLido, alertas, w,
          tentativas, incidentes, leituras, saida, total_geral, erro>>

(***************************************************************************)
(* Bounds of the input tables.                                             *)
(***************************************************************************)
MaxRows == 2      \* rows of a table of arbitrary rows
MaxRep == 4       \* repetitions of one row in a table of repeated rows
MaxPorDia == 10   \* rows per day in a table of ordinary sales
MaxValores == 2   \* rows per day in a table of varied amounts

(***************************************************************************)
(* Program constants.                                                      *)
(***************************************************************************)
limite == 10             \* floor of detectar_faturamento_muito_baixo
limite_repeticoes == 3   \* threshold of the duplicate heuristic
NDetectores == 4         \* length of the detector list of main

\* queda_pct = 0.30 and the severity boundary 0.60, as fractions num/den.
queda_pct == [num |-> 30, den |-> 100]
queda_alta == [num |-> 60, den |-> 100]

(***************************************************************************)
(* Raw values of the columns.  A data_venda is a timestamp or a text that  *)
(* does not parse; a valor_total is a number, a numeric text or a text     *)
(* that does not parse.                                                    *)
(***************************************************************************)
Ts(d, h) == [tipo |-> "timestamp", dia |-> d, hora |-> h, txt |-> ""]
TextoData(t) == [tipo |-> "texto", dia |-> 0, hora |-> 0, txt |-> t]
Num(v) == [tipo |-> "num", v |-> v, txt |-> ""]
Str(t) == [tipo |-> "str", v |-> 0, txt |-> t]

RawDatas == <<Ts(1, 9), Ts(2, 18), Ts(3, 7), TextoData("sem data")>>
Clientes == <<"Alice", "Bob">>
RawValores == <<Num(7), Str("10"), Str("abc")>>

Dias == 1 .. 3
Hojes == 3 .. 4

None == [tipo |-> "None"]
Pendente == [tipo |-> "Pendente"]
NaT == 0                             \* no day: days are numbered from 1
NaN == [nan |-> TRUE, v |-> 0]
Numero(v) == [nan |-> FALSE, v |-> v]

(***************************************************************************)
(* Input tables.                                                           *)
(***************************************************************************)
NKinds == Len(RawDatas) * Len(Clientes) * Len(RawValores)

Kind(k) ==
    [data_venda  |-> RawDatas[(k % Len(RawDatas)) + 1],
     cliente     |-> Clientes[((k \div Len(RawDatas)) % Len(Clientes)) + 1],
     valor_total |-> RawValores[(k \div (Len(RawDatas) * Len(Clientes))) + 1]]

ComId(rows) == [k \in 1 .. Len(rows) |-> [id          |-> k,
                                          data_venda  |-> rows[k].data_venda,
                                          cliente     |-> rows[k].cliente,
                                          valor_total |-> rows[k].valor_total]]

Repetir(row, n) == [k \in 1 .. n |-> row]

\* Up to MaxRows arbitrary rows (a multiset: the kinds in ascending order).
TabelasGerais ==
    UNION { { ComId([k \in 1 .. n |-> Kind(t[k])]) :
                t \in { u \in [1 .. n -> 0 .. NKinds - 1] :
                          \A a \in 1 .. n - 1 : u[a] <= u[a + 1] } } :
            n \in 0 .. MaxRows }

\* One or two rows, each repeated up to MaxRep times.
TabelasRepetidas ==
    UNION { { ComId(Repetir(Kind(a), m) \o Repetir(Kind(b), n)) :
                b \in a + 1 .. NKinds - 1, m \in 1 .. MaxRep, n \in 0 .. MaxRep } :
            a \in 0 .. NKinds - 1 }

\* Ordinary sales: c[d] sales of 7 to Alice on each day d, one per hour.
VendasDoDia(d, n) ==
    [k \in 1 .. n |-> [data_venda |-> Ts(d, k), cliente |-> "Alice",
                       valor_total |-> Num(7)]]

TabelasVolume ==
    { ComId(VendasDoDia(1, c[1]) \o VendasDoDia(2, c[2]) \o VendasDoDia(3, c[3])) :
        c \in [Dias -> 0 .. MaxPorDia] }

\* Varied amounts: on each day up to MaxValores sales to Alice, of any amounts.
ValoresDoDia(d) ==
    { Repetir([data_venda |-> Ts(d, 12), cliente |-> "Alice",
               valor_total |-> RawValores[1]], c[1])
      \o Repetir([data_venda |-> Ts(d, 12), cliente |-> "Alice",
                  valor_total |-> RawValores[2]], c[2])
      \o Repetir([data_venda |-> Ts(d, 12), cliente |-> "Alice",
                  valor_total |-> RawValores[3]], c[3]) :
        c \in { u \in [1 .. 3 -> 0 .. MaxValores] : u[1] + u[2] + u[3] <= MaxValores } }

TabelasValores ==
    { ComId(a \o b \o c) :
        a \in ValoresDoDia(1), b \in ValoresDoDia(2), c \in ValoresDoDia(3) }

Tabelas == TabelasGerais \cup TabelasRepetidas \cup TabelasVolume \cup TabelasValores

(***************************************************************************)
(* Helpers (lines 12-37).                                                  *)
(***************************************************************************)
\* a value that does not parse becomes the first day instead of NaT
to_date_padrao(x) == IF x.tipo = "timestamp" THEN x.dia ELSE 1

\* pd.to_datetime(x, errors="coerce").dt.date: the calendar day, NaT if the
\* value does not parse.
to_date(x) == IF x.tipo = "timestamp" THEN x.dia ELSE NaT

\* pd.to_numeric(x, errors="coerce"): the number, NaN if the text is not one.
to_numeric(x) ==
    IF x.tipo = "num" THEN Numero(x.v)
    ELSE IF x.txt = "10" THEN Numero(10)
    ELSE IF x.txt = "7" THEN Numero(7)
    ELSE IF x.txt = "0" THEN Numero(0)
    ELSE NaN

fillna(x, v) == IF x.nan THEN v ELSE x.v

preparar_df(raw) ==
    LET datas == [k \in 1 .. Len(raw) |->
                    [id          |-> raw[k].id,
                     data_venda  |-> to_date(raw[k].data_venda),
                     cliente     |-> raw[k].cliente,
                     valor_total |-> raw[k].valor_total]]
        validas == SelectSeq(datas, LAMBDA r : r.data_venda # NaT)
    IN  [k \in 1 .. Len(validas) |->
            [id          |-> validas[k].id,
             data_venda  |-> validas[k].data_venda,
             cliente     |-> validas[k].cliente,
             valor_total |-> fillna(to_numeric(validas[k].valor_total), 0)]]

\* A daily series is a sequence of [indice |-> day, valor |-> metric].
serie_por_dia_completo(serie_por_dia, hj) ==
    IF serie_por_dia = <<>> THEN serie_por_dia
    ELSE IF serie_por_dia[Len(serie_por_dia)].indice = hj
         THEN SubSeq(serie_por_dia, 1, Len(serie_por_dia) - 1)
         ELSE serie_por_dia

(***************************************************************************)
(* groupby(...).sum() / .count() / .size(), sorted by key.                 *)
(***************************************************************************)
RECURSIVE sort_index(_)
sort_index(S) ==
    IF S = {} THEN <<>>
    ELSE LET m == CHOOSE x \in S : \A y \in S : x <= y
         IN  <<m>> \o sort_index(S \ {m})

RECURSIVE sum(_)
sum(s) == IF s = <<>> THEN 0 ELSE Head(s).valor_total + sum(Tail(s))

groupby_sum(d) ==
    LET dias == sort_index({d[k].data_venda : k \in 1 .. Len(d)})
    IN  [k \in 1 .. Len(dias) |->
            [indice |-> dias[k],
             valor  |-> sum(SelectSeq(d, LAMBDA r : r.data_venda = dias[k]))]]

groupby_count(d) ==
    LET dias == sort_index({d[k].data_venda : k \in 1 .. Len(d)})
    IN  [k \in 1 .. Len(dias) |->
            [indice |-> dias[k],
             valor  |-> Len(SelectSeq(d, LAMBDA r : r.data_venda = dias[k]))]]

\* The triples (data_venda, cliente, valor_total) with their number of rows:
\* groupby([...]).size().reset_index(name="repeticoes").
groupby_size(d) ==
    { [data_venda  |-> d[k].data_venda,
       cliente     |-> d[k].cliente,
       valor_total |-> d[k].valor_total,
       repeticoes  |-> Len(SelectSeq(d, LAMBDA r :
                            /\ r.data_venda = d[k].data_venda
                            /\ r.cliente = d[k].cliente
                            /\ r.valor_total = d[k].valor_total))] :
      k \in 1 .. Len(d) }

(***************************************************************************)
(* Float comparisons on a quotient n/den of two whole numbers, den # 0,    *)
(* against a threshold q = q.num/q.den.                                    *)
(***************************************************************************)
Abs(x) == IF x < 0 THEN -x ELSE x

\* n/den < -q: the comparison of lines 80 and 164 made strict
LeqMenosEstrito(n, den, q) ==
    IF den > 0 THEN n * q.den < -(q.num * den)
    ELSE n * q.den > -(q.num * den)

\* n/den <= -q
LeqMenos(n, den, q) ==
    IF den > 0 THEN n * q.den <= -(q.num * den)
    ELSE n * q.den >= -(q.num * den)

\* abs(n/den) > q: the comparison of line 165 made strict
AbsGt(n, den, q) == Abs(n) * q.den > q.num * Abs(den)

\* abs(n/den) >= q
AbsGeq(n, den, q) == Abs(n) * q.den >= q.num * Abs(den)

(***************************************************************************)
(* Detectors (lines 44-226).  hj is the value date.today() returns during  *)
(* the call.                                                               *)
(***************************************************************************)
detectar_queda_faturamento(d, queda, hj) ==
    IF d = <<>> THEN None
    ELSE
      LET por_dia == serie_por_dia_completo(groupby_sum(d), hj)
          n == Len(por_dia)
      IN  IF n < 2 THEN None
          ELSE
            LET ultimo_dia == por_dia[n].indice
                dia_anterior == por_dia[n - 1].indice
                faturamento_ultimo == por_dia[n].valor
                faturamento_anterior == por_dia[n - 1].valor
            IN  IF faturamento_anterior = 0 THEN None
                ELSE IF LeqMenos(faturamento_ultimo - faturamento_anterior,
                                 faturamento_anterior, queda)
                THEN [tipo       |-> "queda_faturamento",
                      severidade |-> "alta",
                      detalhe    |-> <<"Queda no faturamento do dia", ultimo_dia>>,
                      contexto   |->
                        [dia_anterior          |-> dia_anterior,
                         ultimo_dia            |-> ultimo_dia,
                         faturamento_anterior  |-> faturamento_anterior,
                         faturamento_ultimo    |-> faturamento_ultimo,
                         variacao_pct          |->
                            [num |-> (faturamento_ultimo - faturamento_anterior) * 100,
                             den |-> faturamento_anterior],
                         queda_pct_configurada |-> queda]]
                ELSE None

detectar_faturamento_muito_baixo(d, lim, hj) ==
    IF d = <<>> THEN None
    ELSE
      LET todos == groupby_sum(d)
          por_dia == IF todos[Len(todos)].indice = hj
                     THEN SubSeq(todos, 1, Len(todos) - 1)
                     ELSE todos
      IN  IF por_dia = <<>> THEN None
          ELSE
            LET ultimo_dia == por_dia[Len(por_dia)].indice
                total == por_dia[Len(por_dia)].valor
            IN  IF total <= lim
                THEN [tipo       |-> "faturamento_muito_baixo",
                      severidade |-> "alta",
                      detalhe    |-> <<"Faturamento muito baixo no dia", ultimo_dia>>,
                      contexto   |-> [dia                |-> ultimo_dia,
                                      faturamento_total  |-> total,
                                      limite_configurado |-> lim]]
                ELSE None

detectar_queda_numero_vendas(d, queda, hj) ==
    IF d = <<>> THEN None
    ELSE
      LET por_dia == serie_por_dia_completo(groupby_count(d), hj)
          n == Len(por_dia)
      IN  IF n < 2 THEN None
          ELSE
            LET ultimo_dia == por_dia[n].indice
                dia_anterior == por_dia[n - 1].indice
                vendas_ultimo == por_dia[n].valor
                vendas_anterior == por_dia[n - 1].valor
            IN  IF vendas_anterior = 0 THEN None
                ELSE IF LeqMenos(vendas_ultimo - vendas_anterior, vendas_anterior, queda)
                THEN [tipo       |-> "queda_numero_vendas",
                      severidade |->
                        IF AbsGeq(vendas_ultimo - vendas_anterior, vendas_anterior,
                                  queda_alta)
                        THEN "alta" ELSE "media",
                      detalhe    |-> <<"Queda no numero de vendas no dia", ultimo_dia>>,
                      contexto   |->
                        [dia_anterior          |-> dia_anterior,
                         ultimo_dia            |-> ultimo_dia,
                         vendas_anterior       |-> vendas_anterior,
                         vendas_ultimo         |-> vendas_ultimo,
                         variacao_pct          |->
                            [num |-> (vendas_ultimo - vendas_anterior) * 100,
                             den |-> vendas_anterior],
                         queda_pct_configurada |-> queda]]
                ELSE None

\* sort_values(["repeticoes"], ascending=False) uses an unstable sort: among
\* the rows of equal repeticoes any one may come first.  The first rows the
\* sort may produce:
PrimeirosAscendente(rows) ==
    { r \in rows : \A o \in rows : o.repeticoes >= r.repeticoes }

Primeiros(rows) == { r \in rows : \A o \in rows : o.repeticoes <= r.repeticoes }

\* The set of results the call may return.
detectar_possivel_fraude_duplicidade(d, lim_rep) ==
    IF d = <<>> THEN {None}
    ELSE
      LET agrupado == groupby_size(d)
          suspeitos == { g \in agrupado : g.repeticoes >= lim_rep }
      IN  IF suspeitos = {} THEN {None}
          ELSE { [tipo       |-> "possivel_fraude_duplicidade",
                  severidade |-> "alta",
                  detalhe    |-> <<"Possivel fraude/duplicidade", row.cliente,
                                   row.valor_total, row.repeticoes, row.data_venda>>,
                  contexto   |-> [data_venda        |-> row.data_venda,
                                  cliente           |-> row.cliente,
                                  valor_total       |-> row.valor_total,
                                  repeticoes        |-> row.repeticoes,
                                  limite_repeticoes |-> lim_rep]] :
                 row \in Primeiros(suspeitos) }

NameError == [tipo |-> "NameError"]

\* agente.py defines no detectar_vendas_zeradas.  The lambda of line 277
\* looks the name up in the module's globals when it is called: the call
\* raises NameError while the name is unbound (the file as it stands); were
\* a definition from outside this file bound to the name, the call would
\* return, and the model lets it return nothing, so that the rest of main
\* is reached.  The set of outcomes of the call:
detectar_vendas_zeradas(d) == { NameError, None }

(***************************************************************************)
(* main (lines 258-294).                                                   *)
(***************************************************************************)
\* The outcomes of the k-th lambda of the list of lines 276-281.
Detector(k, d, hj) ==
    CASE k = 1 -> detectar_vendas_zeradas(d)
      [] k = 2 -> {detectar_queda_faturamento(d, queda_pct, hj)}
      [] k = 3 -> {detectar_queda_numero_vendas(d, queda_pct, hj)}
      [] k = 4 -> detectar_possivel_fraude_duplicidade(d, limite_repeticoes)

\* The detectors that call date.today(): those that filter a non-empty series.
LeHoje(k, d) == k \in {2, 3} /\ d # <<>>

Init ==
    /\ vendas \in Tabelas
    /\ hoje \in Hojes
    /\ pc = "inicio"
    /\ df = <<>>
    /\ i = 1
    /\ resultados = [k \in 1 .. NDetectores |-> Pendente]
    /\ hojeLido = [k \in 1 .. NDetectores |-> 0]
    /\ alertas = <<>>
    /\ w = 1
    /\ tentativas = <<>>
    /\ incidentes = <<>>
    /\ leituras = 0
    /\ saida = ""
    /\ total_geral = -1
    /\ erro = ""

\* lines 259-263: DATABASE_URL is read; the run aborts when it is missing.
Iniciar ==
    /\ pc = "inicio"
    /\ \E db_url \in {"", "postgresql://db/vendas"} :
         IF db_url = ""
         THEN pc' = "erro" /\ erro' = "ValueError"
         ELSE pc' = "ler" /\ erro' = erro
    /\ UNCHANGED <<vendas, hoje, df, i, resultados, hojeLido, alertas, w,
                   tentativas, incidentes, leituras, saida, total_geral>>

\* lines 266-269: the one SELECT on vendas; it returns the rows or fails.
Ler ==
    /\ pc = "ler"
    /\ leituras' = leituras + 1
    /\ \E ok \in BOOLEAN :
         IF ok
         THEN df' = vendas /\ pc' = "preparar" /\ erro' = erro
         ELSE df' = df /\ pc' = "erro" /\ erro' = "OperationalError(read)"
    /\ UNCHANGED <<vendas, hoje, i, resultados, hojeLido, alertas, w,
                   tentativas, incidentes, saida, total_geral>>

\* lines 271-273
Preparar ==
    /\ pc = "preparar"
    /\ df' = preparar_df(df)
    /\ pc' = "detectar"
    /\ UNCHANGED <<vendas, hoje, i, resultados, hojeLido, alertas, w,
                   tentativas, incidentes, leituras, saida, total_geral, erro>>

\* registrar_incidente (lines 233-251): the row of the INSERT.
Linha(alerta) ==
    [tipo       |-> alerta.tipo,
     severidade |-> alerta.severidade,
     detalhe    |-> alerta.detalhe,
     contexto   |-> alerta.contexto]

\* the loop over the detectors registering each incident as soon as it is
\* detected, instead of collecting it
DetectarRegistrando ==
    /\ pc = "detectar"
    /\ \E alerta \in Detector(i, df, hoje) :
         /\ resultados' = [resultados EXCEPT ![i] = alerta]
         /\ IF alerta = NameError
            THEN /\ pc' = "erro"
                 /\ erro' = "NameError"
                 /\ UNCHANGED <<i, alertas, tentativas, incidentes>>
            ELSE /\ alertas' = IF alerta # None THEN Append(alertas, alerta)
                               ELSE alertas
                 /\ tentativas' = IF alerta # None
                                  THEN Append(tentativas, Linha(alerta))
                                  ELSE tentativas
                 /\ incidentes' = IF alerta # None
                                  THEN Append(incidentes, Linha(alerta))
                                  ELSE incidentes
                 /\ i' = i + 1
                 /\ pc' = IF i = NDetectores THEN "resumo" ELSE "detectar"
                 /\ erro' = erro
    /\ hojeLido' = [hojeLido EXCEPT ![i] = IF LeHoje(i, df) THEN hoje ELSE 0]
    /\ UNCHANGED <<vendas, hoje, df, w, leituras, saida, total_geral>>

\* lines 276-284: one iteration of the loop over the detectors.
Detectar ==
    /\ pc = "detectar"
    /\ \E alerta \in Detector(i, df, hoje) :
         /\ resultados' = [resultados EXCEPT ![i] = alerta]
         /\ IF alerta = NameError
            THEN /\ pc' = "erro"
                 /\ erro' = "NameError"
                 /\ UNCHANGED <<i, alertas>>
            ELSE /\ alertas' = IF alerta # None THEN Append(alertas, alerta)
                               ELSE alertas
                 /\ i' = i + 1
                 /\ pc' = IF i = NDetectores THEN "resumo" ELSE "detectar"
                 /\ erro' = erro
    /\ hojeLido' = [hojeLido EXCEPT ![i] = IF LeHoje(i, df) THEN hoje ELSE 0]
    /\ UNCHANGED <<vendas, hoje, df, w, tentativas, incidentes, leituras,
                   saida, total_geral>>

\* lines 286-287 and 292-294: the branch on alertas and the summary header.
Resumo ==
    /\ pc = "resumo"
    /\ IF alertas # <<>>
       THEN /\ saida' = "ALERTA(S) DETECTADO(S)"
            /\ pc' = "registrar"
            /\ total_geral' = total_geral
       ELSE /\ total_geral' = (IF df # <<>> THEN sum(df) ELSE 0)
            /\ saida' = "OK: nenhum incidente detectado"
            /\ pc' = "fim"
    /\ w' = 1
    /\ UNCHANGED <<vendas, hoje, df, i, resultados, hojeLido, alertas,
                   tentativas, incidentes, leituras, erro>>

\* lines 288-291: one iteration of the loop over alertas.  The INSERT commits
\* or raises; nothing in main catches what it raises.
Registrar ==
    /\ pc = "registrar"
    /\ tentativas' = Append(tentativas, Linha(alertas[w]))
    /\ \E ok \in BOOLEAN :
         IF ok
         THEN /\ incidentes' = Append(incidentes, Linha(alertas[w]))
              /\ w' = w + 1
              /\ erro' = erro
              /\ IF w = Len(alertas)
                 THEN saida' = "Incidente(s) registrado(s)" /\ pc' = "fim"
                 ELSE saida' = saida /\ pc' = pc
         ELSE /\ pc' = "erro"
              /\ erro' = "OperationalError(write)"
              /\ UNCHANGED <<incidentes, w, saida>>
    /\ UNCHANGED <<vendas, hoje, df, i, resultados, hojeLido, alertas,
                   leituras, total_geral>>

\* Midnight passes while the detectors run (date.today() is read anew by each
\* call, lines 32 and 104).  Before the first detector a tick is a later
\* initial clock, and after the last one nothing reads the clock.
Tick ==
    /\ pc = "detectar"
    /\ hoje + 1 \in Hojes
    /\ hoje' = hoje + 1
    /\ UNCHANGED <<vendas, pc, df, i, resultados, hojeLido, alertas, w,
                   tentativas, incidentes, leituras, saida, total_geral, erro>>

Next == Iniciar \/ Ler \/ Preparar \/ Detectar \/ Resumo \/ Registrar \/ Tick

Spec == Init /\ [][Next]_vars

(***************************************************************************)
(* What the properties speak of, stated on the rows of table vendas.       *)
(***************************************************************************)
Terminou == pc \in {"fim", "erro"}

\* df holds the normalized records
Normalizado == pc \notin {"inicio", "ler", "preparar"} /\ leituras = 1
                 /\ erro # "OperationalError(read)"

\* the run got as far as normalization allows: it ended, and neither the
\* configuration nor the read of the source failed
TerminouAposLer == Terminou /\ Normalizado

DataValida(k) == vendas[k].data_venda.tipo = "timestamp"
LinhasValidas == { k \in 1 .. Len(vendas) : DataValida(k) }
LinhasDoDia(d) == { k \in LinhasValidas : vendas[k].data_venda.dia = d }

\* the amount a raw valor_total stands for: unparsable counts as zero
ValorEsperado(x) ==
    CASE x.tipo = "num" -> x.v
      [] x.tipo = "str" /\ x.txt = "10" -> 10
      [] OTHER -> 0

Valores == { ValorEsperado(RawValores[k]) : k \in 1 .. Len(RawValores) }
ClientesSet == { Clientes[k] : k \in 1 .. Len(Clientes) }

RECURSIVE SomaLinhas(_)
SomaLinhas(S) ==
    IF S = {} THEN 0
    ELSE LET k == CHOOSE x \in S : TRUE
         IN  ValorEsperado(vendas[k].valor_total) + SomaLinhas(S \ {k})

Faturamento(d) == SomaLinhas(LinhasDoDia(d))
NumeroVendas(d) == Cardinality(LinhasDoDia(d))

DiasPopulados == { d \in Dias : LinhasDoDia(d) # {} }
Maior(S) == CHOOSE x \in S : \A y \in S : y <= x
\* the populated days left by the completeness filter when today is hj
Completos(hj) ==
    IF DiasPopulados # {} /\ Maior(DiasPopulados) = hj
    THEN DiasPopulados \ {hj}
    ELSE DiasPopulados
UltimoDia(hj) == Maior(Completos(hj))
DiaAnterior(hj) == Maior(Completos(hj) \ {UltimoDia(hj)})

Disparou(r) == r \notin {Pendente, None, NameError}

RD == 2
VD == 3
DH == 4

\* the k-th detector of the list has just returned
Avaliado(k) == i = k + 1 /\ pc \in {"detectar", "resumo"}

\* the rows of the group (day, customer, amount)
Grupo(d, c, v) ==
    { k \in LinhasDoDia(d) :
        vendas[k].cliente = c /\ ValorEsperado(vendas[k].valor_total) = v }
Repeticoes(d, c, v) == Cardinality(Grupo(d, c, v))
MaiorRepeticao ==
    Maior({ Repeticoes(d, c, v) : d \in Dias, c \in ClientesSet, v \in Valores })

Tipos(seq) == [k \in 1 .. Len(seq) |-> seq[k].tipo]

(***************************************************************************)
(* C4: Revenue Drop fires if and only if the filtered daily amount series  *)
(* has at least 2 entries, previous (the second-to-last) is not 0 and      *)
(* (latest - previous) / previous <= -0.30; when it fires, severity is     *)
(* high and the context carries the values and dates of those two entries. *)
(***************************************************************************)
C4_QuedaFaturamento ==
    Avaliado(RD) =>
      LET hj == hojeLido[RD]
          temDois == Cardinality(Completos(hj)) >= 2
          r == resultados[RD]
      IN  /\ Disparou(r) <=>
               /\ temDois
               /\ Faturamento(DiaAnterior(hj)) # 0
               /\ (Faturamento(UltimoDia(hj)) - Faturamento(DiaAnterior(hj))) * 100
                    <= -(30 * Faturamento(DiaAnterior(hj)))
          /\ Disparou(r) =>
               /\ r.tipo = "queda_faturamento"
               /\ r.severidade = "alta"
               /\ r.contexto.ultimo_dia = UltimoDia(hj)
               /\ r.contexto.dia_anterior = DiaAnterior(hj)
               /\ r.contexto.faturamento_ultimo = Faturamento(UltimoDia(hj))
               /\ r.contexto.faturamento_anterior = Faturamento(DiaAnterior(hj))

\* Revenue Drop fired on a drop of exactly 30%, after the filter dropped today.
C4_Witness ==
    /\ Disparou(resultados[RD])
    /\ hojeLido[RD] \in DiasPopulados
    /\ resultados[RD].contexto.faturamento_anterior = 10
    /\ resultados[RD].contexto.faturamento_ultimo = 7

(***************************************************************************)
(* C5: Volume Drop makes the same two-point comparison on the per-day row  *)
(* counts; when it fires severity is high exactly when the drop is >= 60%  *)
(* and medium otherwise (10 then 4 is high, 10 then 6 is medium), and no   *)
(* drop smaller than 30% yields an incident.                               *)
(***************************************************************************)
C5_QuedaNumeroVendas ==
    Avaliado(VD) =>
      LET hj == hojeLido[VD]
          temDois == Cardinality(Completos(hj)) >= 2
          ant == NumeroVendas(DiaAnterior(hj))
          ult == NumeroVendas(UltimoDia(hj))
          r == resultados[VD]
      IN  /\ Disparou(r) <=> (temDois /\ (ant - ult) * 100 >= 30 * ant)
          /\ Disparou(r) =>
               /\ r.tipo = "queda_numero_vendas"
               /\ r.severidade = IF (ant - ult) * 100 >= 60 * ant THEN "alta" ELSE "media"
               /\ r.contexto.vendas_anterior = ant
               /\ r.contexto.vendas_ultimo = ult
          /\ (temDois /\ ant = 10 /\ ult = 4) => (Disparou(r) /\ r.severidade = "alta")
          /\ (temDois /\ ant = 10 /\ ult = 6) => (Disparou(r) /\ r.severidade = "media")

\* Volume Drop fired with severity high on counts 10 then 4.
C5_Witness ==
    /\ Disparou(resultados[VD])
    /\ resultados[VD].severidade = "alta"
    /\ resultados[VD].contexto.vendas_anterior = 10
    /\ resultados[VD].contexto.vendas_ultimo = 4

\* Volume Drop fired with severity medium on counts 10 then 6.
C5_WitnessMedia ==
    /\ Disparou(resultados[VD])
    /\ resultados[VD].severidade = "media"
    /\ resultados[VD].contexto.vendas_anterior = 10
    /\ resultados[VD].contexto.vendas_ultimo = 6

(***************************************************************************)
(* C7: the Duplicate Heuristic emits at most one incident: none when no    *)
(* group (day, customer, amount) has count >= 3, otherwise one whose count *)
(* is the maximum over all groups and whose day, customer and amount       *)
(* identify a group of that count.                                         *)
(***************************************************************************)
C7_Duplicidade ==
    Avaliado(DH) =>
      LET r == resultados[DH]
      IN  /\ Disparou(r) <=> MaiorRepeticao >= 3
          /\ Disparou(r) =>
               /\ r.tipo = "possivel_fraude_duplicidade"
               /\ r.contexto.repeticoes = MaiorRepeticao
               /\ Repeticoes(r.contexto.data_venda, r.contexto.cliente,
                             r.contexto.valor_total) = MaiorRepeticao
          /\ Cardinality({ k \in 1 .. Len(alertas) :
                             alertas[k].tipo = "possivel_fraude_duplicidade" }) <= 1

\* The heuristic fired while another group, below the threshold, went unreported,
\* and a second group at or above the threshold had fewer rows than the reported.
C7_Witness ==
    /\ Disparou(resultados[DH])
    /\ \E d \in Dias, c \in ClientesSet, v \in Valores :
         /\ Repeticoes(d, c, v) >= 3
         /\ Repeticoes(d, c, v) < resultados[DH].contexto.repeticoes

\* The heuristic fired with two groups tied at the maximum.
C7_WitnessEmpate ==
    /\ Disparou(resultados[DH])
    /\ \E d \in Dias, c \in ClientesSet, v \in Valores :
         /\ Repeticoes(d, c, v) = MaiorRepeticao
         /\ <<d, c, v>> # <<resultados[DH].contexto.data_venda,
                            resultados[DH].contexto.cliente,
                            resultados[DH].contexto.valor_total>>

(***************************************************************************)
(* C9: normalization keeps exactly the raw rows whose date parses.  A row  *)
(* with an unparsable sale_date is in no daily amount entry, no daily      *)
(* count entry and no duplicate group; a row with a parsable date and an   *)
(* unparsable amount is kept with amount 0 and counts as one record of its *)
(* day.                                                                    *)
(***************************************************************************)
C9_Normalizacao ==
    (pc = "detectar" /\ i = 1) =>
      LET soma == groupby_sum(df)
          conta == groupby_count(df)
          grupos == groupby_size(df)
      IN  /\ { df[k].id : k \in 1 .. Len(df) } = LinhasValidas
          /\ Len(df) = Cardinality(LinhasValidas)
          /\ \A k \in 1 .. Len(df) :
               /\ df[k].data_venda = vendas[df[k].id].data_venda.dia
               /\ df[k].cliente = vendas[df[k].id].cliente
               /\ df[k].valor_total = ValorEsperado(vendas[df[k].id].valor_total)
          /\ { soma[k].indice : k \in 1 .. Len(soma) } = DiasPopulados
          /\ { conta[k].indice : k \in 1 .. Len(conta) } = DiasPopulados
          /\ \A k \in 1 .. Len(soma) : soma[k].valor = Faturamento(soma[k].indice)
          /\ \A k \in 1 .. Len(conta) : conta[k].valor = NumeroVendas(conta[k].indice)
          /\ \A g \in grupos :
               /\ g.data_venda \in DiasPopulados
               /\ g.repeticoes = Repeticoes(g.data_venda, g.cliente, g.valor_total)

\* Normalization ran on a table holding a row whose date does not parse and
\* a row whose date parses and whose amount does not.
C9_Witness ==
    /\ pc = "detectar" /\ i = 1
    /\ \E k \in 1 .. Len(vendas) : ~DataValida(k)
    /\ \E k \in LinhasValidas :
         /\ vendas[k].valor_total.tipo = "str"
         /\ vendas[k].valor_total.txt = "abc"
         /\ \E j \in 1 .. Len(df) : df[j].id = k /\ df[j].valor_total = 0

(***************************************************************************)
(* C10: no sink write happens before every detector of the run has been    *)
(* evaluated; a run that aborts during detection has written nothing, and  *)
(* the "no incidents" summary is printed only in a run with zero writes.   *)
(***************************************************************************)
C10_EscritaAposDeteccao ==
    /\ tentativas # <<>> =>
         /\ i = NDetectores + 1
         /\ \A k \in 1 .. NDetectores : resultados[k] \notin {Pendente, NameError}
    /\ (pc = "detectar" \/ erro = "NameError") =>
         (tentativas = <<>> /\ incidentes = <<>>)
    /\ saida = "OK: nenhum incidente detectado" =>
         (tentativas = <<>> /\ incidentes = <<>> /\ alertas = <<>>)
    /\ Len(incidentes) <= Len(tentativas)

\* Two incidents were written after the four detectors returned.
C10_Witness ==
    /\ Len(incidentes) >= 2
    /\ i = NDetectores + 1

TiposEsperados(hj) ==
    LET tres == <<detectar_queda_faturamento(df, queda_pct, hj),
                  detectar_faturamento_muito_baixo(df, limite, hj),
                  detectar_queda_numero_vendas(df, queda_pct, hj)>>
        dup == IF MaiorRepeticao >= 3 THEN <<"possivel_fraude_duplicidade">>
               ELSE <<>>
    IN  Tipos(SelectSeq(tres, LAMBDA r : r # None)) \o dup

C2_OrdemFixa ==
    (TerminouAposLer /\ erro # "OperationalError(write)") =>
      /\ leituras = 1
      /\ \E hj \in Hojes : Tipos(tentativas) = TiposEsperados(hj)

(***************************************************************************)
(* C3: in every run where the total of the latest entry of the filtered    *)
(* daily amount series is <= 10, an Abnormally Low Revenue incident with   *)
(* severity high is emitted to the sink.                                   *)
(***************************************************************************)
C3_FaturamentoMuitoBaixo ==
    ( /\ TerminouAposLer
      /\ erro # "OperationalError(write)"
      /\ \A hj \in Hojes :
           /\ Completos(hj) # {}
           /\ Faturamento(UltimoDia(hj)) <= limite ) =>
      \E k \in 1 .. Len(incidentes) :
        /\ incidentes[k].tipo = "faturamento_muito_baixo"
        /\ incidentes[k].severidade = "alta"

C6_SemDiaCorrente ==
    /\ \A k \in {RD, VD} :
         Disparou(resultados[k]) => resultados[k].contexto.ultimo_dia # hojeLido[k]
    /\ Disparou(resultados[DH]) => resultados[DH].contexto.data_venda # hoje

(***************************************************************************)
(* C8: a run whose record set is empty after normalization completes       *)
(* without error: every detector declines, nothing is written to the sink  *)
(* and the run ends in the "no incidents" outcome with a total of 0.       *)
(***************************************************************************)
C8_EntradaVazia ==
    (TerminouAposLer /\ df = <<>>) =>
      /\ pc = "fim"
      /\ erro = ""
      /\ \A k \in 1 .. NDetectores : resultados[k] = None
      /\ tentativas = <<>>
      /\ saida = "OK: nenhum incidente detectado"
      /\ total_geral = 0
====
